---- MODULE Spec2Model ----
(***************************************************************************)
(* Model of the Mastodon data pipeline: the importer of                    *)
(* import_to_sqlite.py (MastodonDataImporter) and the CSV writers of       *)
(* mastodon_collector.py that produce its input files.                     *)
(*                                                                         *)
(* A file name is a sequence of one-character strings.  A CSV cell is a    *)
(* string; a cell that csv.DictReader does not deliver (column absent from *)
(* the header, or short row) is None.  A table is the sequence of its rows *)
(* in insertion (rowid) order; the columns imported_at and id are not      *)
(* modelled, the position in the sequence stands for the rowid.            *)
(***************************************************************************)
EXTENDS Integers, Sequences, FiniteSets, TLC

(* ------------------------------ bounds --------------------------------- *)
\* files in the data directory, all families together
MaxFiles == 2
\* data rows in the data directory, all files together
MaxRows == 2
\* successive runs of the importer over the same directory and database
MaxRuns == 2

(* --------------------------- Python values ----------------------------- *)
\* Python None / SQL NULL in a cell or column (never the text of a CSV cell)
None == "<None>"
\* the "no date found" result of extract_date_from_filename (Python None)
NoDate == << >>

Digits == {"0", "1", "2", "3", "4", "5", "6", "7", "8", "9"}

\* str.isdigit() on a sequence of characters: non-empty, every character a digit
IsDigitString(s) == Len(s) > 0 /\ \A i \in 1..Len(s) : s[i] \in Digits

\* decimal numerals: Numerals[n + 1] is the text Python writes for the integer n
Numerals == <<"0", "1", "2", "3", "4", "5", "6", "7", "8", "9", "10", "11", "12">>
IsNumeral(x) == \E i \in 1..Len(Numerals) : Numerals[i] = x
\* str(n), as csv.writer renders an integer cell
Str(n) == Numerals[n + 1]
\* int(text) for a text that is a decimal numeral
ParseInt(x) == (CHOOSE i \in 1..Len(Numerals) : Numerals[i] = x) - 1
\* variant: int(v) without "or 0", which raises on a missing or empty cell too
IntRaisesOnEmpty(v) == v = None \/ v = "" \/ ~IsNumeral(v)
\* int(v or 0) raises ValueError: v is a non-empty text that is no numeral
IntRaises(v) == v # None /\ v # "" /\ ~IsNumeral(v)
\* int(v or 0) when it does not raise: None and '' are falsy and give 0
IntOrZero(v) == IF v = None \/ v = "" THEN 0 ELSE ParseInt(v)
\* row.get(col, 'False') == 'True'
IsTrueText(v) == v = "True"

(* ---------------------- extract_date_from_filename --------------------- *)
\* filename.split('_'): the segments between underscores, left to right
RECURSIVE SplitFrom(_, _, _)
SplitFrom(s, i, cur) ==
    IF i > Len(s) THEN <<cur>>
    ELSE IF s[i] = "_" THEN <<cur>> \o SplitFrom(s, i + 1, << >>)
    ELSE SplitFrom(s, i + 1, Append(cur, s[i]))
SplitUnderscore(s) == SplitFrom(s, 1, << >>)

\* f"{year}-{month}-{day}" from part[:4], part[4:6], part[6:8]
FormatDate(part) ==
    SubSeq(part, 1, 4) \o <<"-">> \o SubSeq(part, 5, 6) \o <<"-">> \o SubSeq(part, 7, 8)

\* the loop over parts: the first part with len 8 and isdigit() decides
RECURSIVE FirstDatePart(_, _)
FirstDatePart(parts, i) ==
    IF i > Len(parts) THEN NoDate
    ELSE IF Len(parts[i]) = 8 /\ IsDigitString(parts[i]) THEN FormatDate(parts[i])
    ELSE FirstDatePart(parts, i + 1)

\* variant: any part that begins with 8 digits is taken for a date
RECURSIVE FirstDatePrefixPart(_, _)
FirstDatePrefixPart(parts, i) ==
    IF i > Len(parts) THEN NoDate
    ELSE IF Len(parts[i]) >= 8 /\ IsDigitString(SubSeq(parts[i], 1, 8))
           THEN FormatDate(parts[i])
    ELSE FirstDatePrefixPart(parts, i + 1)
ExtractDateFromPrefix(filename) == FirstDatePrefixPart(SplitUnderscore(filename), 1)

extract_date_from_filename(filename) == FirstDatePart(SplitUnderscore(filename), 1)

(* ------------------------------ file names ----------------------------- *)
\* the five file families, in the order run() imports them
Families == <<"posts_analysis", "local_posts", "hashtag_analysis", "trending_tags", "instance_stats">>
FamilySet == {Families[i] : i \in 1..Len(Families)}

\* the fixed head of the glob pattern of each family, e.g. "posts_analysis_"
GlobPrefix(fam) ==
    CASE fam = "posts_analysis" -> <<"p", "o", "s", "t", "s", "_", "a", "n", "a", "l", "y", "s", "i", "s", "_">>
      [] fam = "local_posts" -> <<"l", "o", "c", "a", "l", "_", "p", "o", "s", "t", "s", "_">>
      [] fam = "hashtag_analysis" -> <<"h", "a", "s", "h", "t", "a", "g", "_", "a", "n", "a", "l", "y", "s", "i", "s", "_">>
      [] fam = "trending_tags" -> <<"t", "r", "e", "n", "d", "i", "n", "g", "_", "t", "a", "g", "s", "_">>
      [] fam = "instance_stats" -> <<"i", "n", "s", "t", "a", "n", "c", "e", "_", "s", "t", "a", "t", "s", "_">>
\* the fixed tail of every glob pattern
CsvSuffix == <<".", "c", "s", "v">>

\* what stands for the * of the glob: two collector time stamps of one day, one of
\* the next day (datetime.now().strftime("%Y%m%d_%H%M%S")), and a name without a date
StampDayA1 == <<"2", "0", "2", "4", "1", "1", "2", "8", "_", "1", "8", "3", "0", "4", "2">>
StampDayA2 == <<"2", "0", "2", "4", "1", "1", "2", "8", "_", "1", "9", "0", "0", "0", "0">>
StampDayB == <<"2", "0", "2", "4", "1", "1", "2", "9", "_", "0", "8", "0", "0", "0", "0">>
StampNone == <<"l", "a", "t", "e", "s", "t">>
Stamps == {StampDayA1, StampDayA2, StampDayB, StampNone}

FileName(fam, stamp) == GlobPrefix(fam) \o stamp \o CsvSuffix

(* ------------------------------- CSV rows ------------------------------ *)
\* One record per data row as csv.DictReader yields it: the columns the importer
\* reads by name.  Of the integer columns of posts_analysis, replies_count,
\* reblogs_count, favourites_count and hour_of_day are modelled, of its flag columns
\* has_media, of its text columns created_at, language and account_id; the
\* remaining columns go through the same three expressions.
PostsAnalysisRows == {
    [post_id |-> "p1", created_at |-> "t1", language |-> "en", replies_count |-> "1",
     reblogs_count |-> "2", favourites_count |-> "3", has_media |-> "True",
     hour_of_day |-> "5", account_id |-> "a1"],
    [post_id |-> None, created_at |-> "t2", language |-> "", replies_count |-> "2",
     reblogs_count |-> "", favourites_count |-> None, has_media |-> "False",
     hour_of_day |-> None, account_id |-> "a2"],
    [post_id |-> "p2", created_at |-> "t3", language |-> "de", replies_count |-> "abc",
     reblogs_count |-> "1", favourites_count |-> "1", has_media |-> None,
     hour_of_day |-> "23", account_id |-> "a1"] }

LocalPostsRows == {
    [post_id |-> "p1", created_at |-> "t1", account_username |-> "alice", language |-> "en",
     engagement_total |-> "9", replies |-> "1", reblogs |-> "2", favourites |-> "3",
     has_media |-> "False"],
    [post_id |-> "p3", created_at |-> "t4", account_username |-> "bob", language |-> "de",
     engagement_total |-> None, replies |-> "", reblogs |-> "1", favourites |-> None,
     has_media |-> "True"],
    [post_id |-> "p4", created_at |-> "t5", account_username |-> "bob", language |-> "de",
     engagement_total |-> "0", replies |-> "2", reblogs |-> "x", favourites |-> "2",
     has_media |-> "True"] }

\* statuses as the Mastodon API returns them to collect_hashtag_timeline
ApiPosts == {
    [id |-> "p1", created_at |-> "t1", language |-> "en", replies_count |-> 1,
     reblogs_count |-> 2, favourites_count |-> 3, tags |-> "python|rust",
     account_id |-> "a1"] }
TrackedHashtags == {"python", "rust"}

\* variant: the unweighted sum collect_local_timeline uses
CollectorEngagementUnweighted(post) ==
    post.replies_count + post.reblogs_count + post.favourites_count

\* the engagement of collect_hashtag_timeline: reblogs count double
CollectorEngagement(post) ==
    post.replies_count + post.reblogs_count * 2 + post.favourites_count

\* the row collect_hashtag_timeline writes for a status collected for a hashtag
HashtagCsvRow(post, hashtag) ==
    [collected_hashtag |-> hashtag, post_id |-> post.id, created_at |-> post.created_at,
     language |-> post.language, engagement_score |-> Str(CollectorEngagement(post)),
     replies_count |-> Str(post.replies_count), reblogs_count |-> Str(post.reblogs_count),
     favourites_count |-> Str(post.favourites_count), all_hashtags |-> post.tags,
     account_id |-> post.account_id]

CollectorHashtagRows == {HashtagCsvRow(p, h) : p \in ApiPosts, h \in TrackedHashtags}

\* hashtag_analysis rows of any origin: the collector's, and rows it did not write
HashtagAnalysisRows == CollectorHashtagRows \cup {
    [collected_hashtag |-> "python", post_id |-> "p1", created_at |-> "t9",
     language |-> "fr", engagement_score |-> "9", replies_count |-> "1",
     reblogs_count |-> "2", favourites_count |-> "3", all_hashtags |-> "python",
     account_id |-> "a7"],
    [collected_hashtag |-> "python", post_id |-> None, created_at |-> "t2",
     language |-> "en", engagement_score |-> None, replies_count |-> "1",
     reblogs_count |-> "1", favourites_count |-> "", all_hashtags |-> None,
     account_id |-> None] }

TrendingTagsRows == {
    [tag_name |-> "python", url |-> "u1", total_uses |-> "5", day_1_uses |-> "3",
     day_2_uses |-> "2"],
    [tag_name |-> "python", url |-> "u1", total_uses |-> "7", day_1_uses |-> "4",
     day_2_uses |-> ""],
    [tag_name |-> None, url |-> "u2", total_uses |-> "1", day_1_uses |-> None,
     day_2_uses |-> "1"] }

InstanceStatsRows == {
    [timestamp |-> "20241128_183042", user_count |-> "5", status_count |-> "6",
     domain_count |-> "7"],
    [timestamp |-> "20241128_190000", user_count |-> "8", status_count |-> "",
     domain_count |-> None],
    [timestamp |-> "x", user_count |-> "abc", status_count |-> "1", domain_count |-> "1"] }

RowPool(fam) ==
    CASE fam = "posts_analysis" -> PostsAnalysisRows
      [] fam = "local_posts" -> LocalPostsRows
      [] fam = "hashtag_analysis" -> HashtagAnalysisRows
      [] fam = "trending_tags" -> TrendingTagsRows
      [] fam = "instance_stats" -> InstanceStatsRows

(* ---------------------------- the directory ---------------------------- *)
\* A file: its name, the rows the reader yields, and whether reading fails after
\* the last of them (open() or the reader raises: unreadable or undecodable file).
\* FilesOf(fam, k): the files of a family with at most k rows; the file that cannot
\* be read to its end is the one of the first time stamp.
FilesOf(fam, k) ==
    {[name |-> FileName(fam, st), rows |-> rs, read_fails |-> FALSE] :
        st \in Stamps, rs \in UNION {[1..n -> RowPool(fam)] : n \in 0..k}}
      \cup
    {[name |-> FileName(fam, StampDayA1), rows |-> rs, read_fails |-> TRUE] :
        rs \in UNION {[1..n -> RowPool(fam)] : n \in 0..k}}

RECURSIVE RowsIn(_)
RowsIn(files) ==
    IF files = << >> THEN 0 ELSE Len(Head(files).rows) + RowsIn(Tail(files))

\* the lists glob() can return for a family holding n files with at most k rows
\* together: distinct names, any order
GlobResults(fam, n, k) ==
    {fs \in [1..n -> FilesOf(fam, k)] :
        /\ \A i, j \in 1..n : fs[i].name = fs[j].name => i = j
        /\ RowsIn(fs) <= k}

\* how many files each family holds: at most MaxFiles in the directory
FileCounts == {c \in [FamilySet -> 0..MaxFiles] :
                 c["posts_analysis"] + c["local_posts"] + c["hashtag_analysis"]
                   + c["trending_tags"] + c["instance_stats"] <= MaxFiles}

\* number of data rows in all files of the directory d
RowsInDirectory(d) ==
    RowsIn(d["posts_analysis"]) + RowsIn(d["local_posts"]) + RowsIn(d["hashtag_analysis"])
      + RowsIn(d["trending_tags"]) + RowsIn(d["instance_stats"])

(* -------------------------------- state ------------------------------- *)
VARIABLES
    dir,              \* the data directory: for each family, its files in glob() order
    run,              \* number of the current run of the importer
    pc,               \* position in run(): "start", a family pass, "finish", "done"
    inFile,           \* inside the with-block of the current file
    fileIdx,          \* files of the current pass already left behind
    rowIdx,           \* rows of the current file already read
    collection_date,  \* the local collection_date of the current file
    posts,            \* the four tables as the connection sees them
    hashtag_posts,
    trending_tags,
    instance_stats,
    durable,          \* the four tables as of the last commit
    before,           \* the four tables when the current run started
    stats,            \* self.stats of the current importer object
    fault,            \* what has gone wrong so far: "none", "crash" (a run on this
                      \* database was killed), "db_error" (sqlite3 raised an error)
    collector         \* the MastodonDataCollector at work on one timeline: where it
                      \* is, its arguments, the locals of _get_paginated_data, the
                      \* responses received so far and the files written

vars == <<dir, run, pc, inFile, fileIdx, rowIdx, collection_date, posts, hashtag_posts,
          trending_tags, instance_stats, durable, before, stats, fault, collector>>

Tables == [posts |-> posts, hashtag_posts |-> hashtag_posts,
           trending_tags |-> trending_tags, instance_stats |-> instance_stats]

\* the tables right after create_tables on a new database file
EmptyTables == [posts |-> << >>, hashtag_posts |-> << >>,
                trending_tags |-> << >>, instance_stats |-> << >>]

(* --------------------- the collector: its constants --------------------- *)
\* params={'limit': 40}: the number of statuses asked for per request
PerRequest == 40
\* the largest limit passed to collect_public_timeline / collect_local_timeline
MaxLimit == 80

\* the collector before any collect_* method is called
CollectorIdle ==
    [pc |-> "idle", timeline |-> "public", limit |-> 0, max_pages |-> 0, page |-> 0,
     max_id |-> 0, all_data |-> << >>, responses |-> << >>,
     files_written |-> FALSE, json_file |-> << >>, csv_file |-> << >>]

\* self.stats as __init__ sets it
InitStats == [posts_imported |-> 0, posts_duplicates |-> 0, hashtag_posts_imported |-> 0,
              trending_tags_imported |-> 0, instance_stats_imported |-> 0,
              files_processed |-> 0, files_skipped |-> 0]

Bump(st, counter) == [st EXCEPT ![counter] = @ + 1]

(* ------------------------- the deduplicating store --------------------- *)
\* Two rows collide on a uniqueness constraint when every key column is equal and
\* none is NULL: SQLite treats NULLs as distinct in PRIMARY KEY (non-integer) and
\* UNIQUE constraints.
PostsKeyClash(a, b) == a.post_id # None /\ a.post_id = b.post_id
HashtagPostsKeyClash(a, b) ==
    /\ a.post_id # None /\ a.post_id = b.post_id
    /\ a.collected_hashtag # None /\ a.collected_hashtag = b.collected_hashtag
TrendingTagsKeyClash(a, b) ==
    /\ a.collection_date # NoDate /\ a.collection_date = b.collection_date
    /\ a.tag_name # None /\ a.tag_name = b.tag_name
InstanceStatsKeyClash(a, b) ==
    a.collection_date # NoDate /\ a.collection_date = b.collection_date

\* INSERT OR IGNORE: the row is appended unless it collides with a stored row
\* variant: INSERT OR REPLACE INTO posts
InsertOrReplacePosts(table, rec) ==
    Append(SelectSeq(table, LAMBDA r : ~PostsKeyClash(r, rec)), rec)
InsertOrIgnorePosts(table, rec) ==
    IF \E i \in 1..Len(table) : PostsKeyClash(table[i], rec) THEN table
    ELSE Append(table, rec)
InsertOrIgnoreHashtagPosts(table, rec) ==
    IF \E i \in 1..Len(table) : HashtagPostsKeyClash(table[i], rec) THEN table
    ELSE Append(table, rec)
InsertOrIgnoreTrendingTags(table, rec) ==
    IF \E i \in 1..Len(table) : TrendingTagsKeyClash(table[i], rec) THEN table
    ELSE Append(table, rec)
\* variant: INSERT OR REPLACE, the colliding rows are deleted and the new row is stored
InsertOrReplaceInstanceStats(table, rec) ==
    Append(SelectSeq(table, LAMBDA r : ~InstanceStatsKeyClash(r, rec)), rec)
InsertOrIgnoreInstanceStats(table, rec) ==
    IF \E i \in 1..Len(table) : InstanceStatsKeyClash(table[i], rec) THEN table
    ELSE Append(table, rec)

(* --------------------------- the normalisers --------------------------- *)
\* building the parameter tuple raises: some int(...) of the row raises
PostsAnalysisRaises(row) ==
    \/ IntRaises(row.replies_count) \/ IntRaises(row.reblogs_count)
    \/ IntRaises(row.favourites_count) \/ IntRaises(row.hour_of_day)
\* variant: the family is not told in the row, every post is a local one
PostsAnalysisRecordAsLocal(row, date) ==
    [post_id |-> row.post_id, collection_date |-> date, created_at |-> row.created_at,
     language |-> row.language, replies_count |-> IntOrZero(row.replies_count),
     reblogs_count |-> IntOrZero(row.reblogs_count),
     favourites_count |-> IntOrZero(row.favourites_count), engagement_total |-> 0,
     has_media |-> IsTrueText(row.has_media), hour_of_day |-> IntOrZero(row.hour_of_day),
     account_id |-> row.account_id, account_username |-> None,
     source |-> "local_timeline"]
\* the row INSERT OR IGNORE INTO posts receives from a posts_analysis row; the
\* columns outside the column list take their defaults
PostsAnalysisRecord(row, date) ==
    [post_id |-> row.post_id, collection_date |-> date, created_at |-> row.created_at,
     language |-> row.language, replies_count |-> IntOrZero(row.replies_count),
     reblogs_count |-> IntOrZero(row.reblogs_count),
     favourites_count |-> IntOrZero(row.favourites_count), engagement_total |-> 0,
     has_media |-> IsTrueText(row.has_media), hour_of_day |-> IntOrZero(row.hour_of_day),
     account_id |-> row.account_id, account_username |-> None,
     source |-> "public_timeline"]

LocalPostsRaises(row) ==
    IntRaises(row.replies) \/ IntRaises(row.reblogs) \/ IntRaises(row.favourites)
\* variant: the engagement_total column the collector wrote is trusted
LocalEngagementFromFile(row) == IntOrZero(row.engagement_total)
\* engagement = int(replies) + int(reblogs) + int(favourites)
LocalEngagement(row) ==
    IntOrZero(row.replies) + IntOrZero(row.reblogs) + IntOrZero(row.favourites)
LocalPostsRecord(row, date) ==
    [post_id |-> row.post_id, collection_date |-> date, created_at |-> row.created_at,
     language |-> row.language, replies_count |-> IntOrZero(row.replies),
     reblogs_count |-> IntOrZero(row.reblogs),
     favourites_count |-> IntOrZero(row.favourites),
     engagement_total |-> LocalEngagement(row),
     has_media |-> IsTrueText(row.has_media), hour_of_day |-> None,
     account_id |-> None, account_username |-> row.account_username,
     source |-> "local_timeline"]

HashtagAnalysisRaises(row) ==
    \/ IntRaises(row.engagement_score) \/ IntRaises(row.replies_count)
    \/ IntRaises(row.reblogs_count) \/ IntRaises(row.favourites_count)
\* the score stored is the one the file carries
HashtagEngagementScore(row) == IntOrZero(row.engagement_score)
HashtagAnalysisRecord(row, date) ==
    [post_id |-> row.post_id, collection_date |-> date,
     collected_hashtag |-> row.collected_hashtag, created_at |-> row.created_at,
     language |-> row.language, engagement_score |-> HashtagEngagementScore(row),
     replies_count |-> IntOrZero(row.replies_count),
     reblogs_count |-> IntOrZero(row.reblogs_count),
     favourites_count |-> IntOrZero(row.favourites_count),
     all_hashtags |-> row.all_hashtags, account_id |-> row.account_id]

TrendingTagsRaises(row) ==
    IntRaises(row.total_uses) \/ IntRaises(row.day_1_uses) \/ IntRaises(row.day_2_uses)
TrendingTagsRecord(row, date) ==
    [collection_date |-> date, tag_name |-> row.tag_name, url |-> row.url,
     total_uses |-> IntOrZero(row.total_uses), day_1_uses |-> IntOrZero(row.day_1_uses),
     day_2_uses |-> IntOrZero(row.day_2_uses)]

InstanceStatsRaises(row) ==
    IntRaises(row.user_count) \/ IntRaises(row.status_count) \/ IntRaises(row.domain_count)
InstanceStatsRecord(row, date) ==
    [timestamp |-> row.timestamp, collection_date |-> date,
     user_count |-> IntOrZero(row.user_count), status_count |-> IntOrZero(row.status_count),
     domain_count |-> IntOrZero(row.domain_count)]

(* --------------------------------- Init -------------------------------- *)
\* A directory the collector has filled, a new database, a new importer object.
Init ==
    /\ \E c \in FileCounts :
         \E pa \in GlobResults("posts_analysis", c["posts_analysis"], MaxRows) :
         \E lp \in GlobResults("local_posts", c["local_posts"], MaxRows - RowsIn(pa)) :
         \E ha \in GlobResults("hashtag_analysis", c["hashtag_analysis"],
                               MaxRows - RowsIn(pa) - RowsIn(lp)) :
         \E tt \in GlobResults("trending_tags", c["trending_tags"],
                               MaxRows - RowsIn(pa) - RowsIn(lp) - RowsIn(ha)) :
         \E is \in GlobResults("instance_stats", c["instance_stats"],
                               MaxRows - RowsIn(pa) - RowsIn(lp) - RowsIn(ha) - RowsIn(tt)) :
              dir = [posts_analysis |-> pa, local_posts |-> lp, hashtag_analysis |-> ha,
                     trending_tags |-> tt, instance_stats |-> is]
    /\ run = 1
    /\ pc = "start"
    /\ inFile = FALSE
    /\ fileIdx = 0
    /\ rowIdx = 0
    /\ collection_date = NoDate
    /\ posts = << >>
    /\ hashtag_posts = << >>
    /\ trending_tags = << >>
    /\ instance_stats = << >>
    /\ durable = EmptyTables
    /\ before = EmptyTables
    /\ stats = InitStats
    /\ fault = "none"
    /\ collector = CollectorIdle

(* ------------------------------ run(): setup --------------------------- *)
\* connect() and create_tables(): CREATE TABLE / INDEX IF NOT EXISTS leave the rows
\* of an existing database alone
ConnectAndCreateTables ==
    /\ pc = "start"
    /\ pc' = "posts_analysis"
    /\ fileIdx' = 0
    /\ inFile' = FALSE
    /\ UNCHANGED <<collector, dir, fault, run, rowIdx, collection_date, posts, hashtag_posts, trending_tags,
                   instance_stats, durable, before, stats>>

(* ------------------- the file loop shared by the passes ---------------- *)
CurrentFile == dir[pc][fileIdx + 1]
CurrentRow == CurrentFile.rows[rowIdx + 1]

\* variant: a file without a date is imported under a default date
NextFileDefaultDate(fam) ==
    /\ pc = fam
    /\ ~inFile
    /\ fileIdx < Len(dir[fam])
    /\ LET date == extract_date_from_filename(dir[fam][fileIdx + 1].name) IN
         collection_date' = IF date = NoDate THEN FormatDate(SubSeq(StampDayB, 1, 8))
                            ELSE date
    /\ inFile' = TRUE
    /\ rowIdx' = 0
    /\ UNCHANGED <<collector, dir, fault, run, pc, fileIdx, stats, posts, hashtag_posts, trending_tags,
                   instance_stats, durable, before>>

\* variant: a file without a date ends the loop (break instead of continue)
NextFileBreak(fam) ==
    /\ pc = fam
    /\ ~inFile
    /\ fileIdx < Len(dir[fam])
    /\ LET date == extract_date_from_filename(dir[fam][fileIdx + 1].name) IN
         /\ collection_date' = date
         /\ IF date = NoDate
              THEN /\ stats' = Bump(stats, "files_skipped")
                   /\ fileIdx' = Len(dir[fam])
                   /\ UNCHANGED <<inFile, rowIdx>>
              ELSE /\ inFile' = TRUE
                   /\ rowIdx' = 0
                   /\ UNCHANGED <<stats, fileIdx>>
    /\ UNCHANGED <<collector, dir, fault, run, pc, posts, hashtag_posts, trending_tags, instance_stats,
                   durable, before>>

\* head of the for-loop body: resolve the date; a file without one is skipped
\* (files_skipped += 1; continue), any other file is opened
NextFile(fam) ==
    /\ pc = fam
    /\ ~inFile
    /\ fileIdx < Len(dir[fam])
    /\ LET date == extract_date_from_filename(dir[fam][fileIdx + 1].name) IN
         /\ collection_date' = date
         /\ IF date = NoDate
              THEN /\ stats' = Bump(stats, "files_skipped")
                   /\ fileIdx' = fileIdx + 1
                   /\ UNCHANGED <<inFile, rowIdx>>
              ELSE /\ inFile' = TRUE
                   /\ rowIdx' = 0
                   /\ UNCHANGED <<stats, fileIdx>>
    /\ UNCHANGED <<collector, dir, fault, run, pc, posts, hashtag_posts, trending_tags, instance_stats,
                   durable, before>>

\* variant: self.conn.commit() at the end of every file
EndOfFileCommit(fam) ==
    /\ pc = fam
    /\ inFile
    /\ rowIdx = Len(CurrentFile.rows)
    /\ stats' = IF CurrentFile.read_fails THEN Bump(stats, "files_skipped")
                ELSE Bump(stats, "files_processed")
    /\ inFile' = FALSE
    /\ fileIdx' = fileIdx + 1
    /\ durable' = Tables
    /\ UNCHANGED <<collector, dir, fault, run, pc, rowIdx, collection_date, posts, hashtag_posts,
                   trending_tags, instance_stats, before>>

\* variant: one try block around the whole loop, a file that cannot be read ends
\* the pass
EndOfFileEndsPass(fam) ==
    /\ pc = fam
    /\ inFile
    /\ rowIdx = Len(CurrentFile.rows)
    /\ stats' = IF CurrentFile.read_fails THEN Bump(stats, "files_skipped")
                ELSE Bump(stats, "files_processed")
    /\ inFile' = FALSE
    /\ fileIdx' = IF CurrentFile.read_fails THEN Len(dir[fam]) ELSE fileIdx + 1
    /\ UNCHANGED <<collector, dir, fault, run, pc, rowIdx, collection_date, posts, hashtag_posts,
                   trending_tags, instance_stats, durable, before>>

\* the reader is exhausted: files_processed += 1; or reading raised and the outer
\* except counts the file as skipped.  Rows already inserted stay inserted.
EndOfFile(fam) ==
    /\ pc = fam
    /\ inFile
    /\ rowIdx = Len(CurrentFile.rows)
    /\ stats' = IF CurrentFile.read_fails THEN Bump(stats, "files_skipped")
                ELSE Bump(stats, "files_processed")
    /\ inFile' = FALSE
    /\ fileIdx' = fileIdx + 1
    /\ UNCHANGED <<collector, dir, fault, run, pc, rowIdx, collection_date, posts, hashtag_posts,
                   trending_tags, instance_stats, durable, before>>

\* self.conn.commit() after the loop, then run() goes on to the next step
CommitPass(fam, next) ==
    /\ pc = fam
    /\ ~inFile
    /\ fileIdx = Len(dir[fam])
    /\ durable' = Tables
    /\ pc' = next
    /\ fileIdx' = 0
    /\ UNCHANGED <<collector, dir, fault, run, inFile, rowIdx, collection_date, posts, hashtag_posts,
                   trending_tags, instance_stats, before, stats>>

\* guard of one iteration of "for row in reader"
AtRow(fam) == pc = fam /\ inFile /\ rowIdx < Len(CurrentFile.rows)

(* ------------------------ import_posts_analysis ------------------------ *)
ImportPostsAnalysisFile == NextFile("posts_analysis")
ImportPostsAnalysisRow ==
    /\ AtRow("posts_analysis")
    /\ IF PostsAnalysisRaises(CurrentRow)
         THEN UNCHANGED <<posts, stats>>
         ELSE LET new == InsertOrIgnorePosts(posts,
                            PostsAnalysisRecord(CurrentRow, collection_date)) IN
                /\ posts' = new
                /\ stats' = IF Len(new) > Len(posts) THEN Bump(stats, "posts_imported")
                            ELSE Bump(stats, "posts_duplicates")
    /\ rowIdx' = rowIdx + 1
    /\ UNCHANGED <<collector, dir, fault, run, pc, inFile, fileIdx, collection_date, hashtag_posts,
                   trending_tags, instance_stats, durable, before>>
ImportPostsAnalysisEndOfFile == EndOfFile("posts_analysis")
ImportPostsAnalysisCommit == CommitPass("posts_analysis", "local_posts")

(* -------------------------- import_local_posts ------------------------- *)
ImportLocalPostsFile == NextFile("local_posts")
ImportLocalPostsRow ==
    /\ AtRow("local_posts")
    /\ IF LocalPostsRaises(CurrentRow)
         THEN UNCHANGED <<posts, stats>>
         ELSE LET new == InsertOrIgnorePosts(posts,
                            LocalPostsRecord(CurrentRow, collection_date)) IN
                /\ posts' = new
                /\ stats' = IF Len(new) > Len(posts) THEN Bump(stats, "posts_imported")
                            ELSE Bump(stats, "posts_duplicates")
    /\ rowIdx' = rowIdx + 1
    /\ UNCHANGED <<collector, dir, fault, run, pc, inFile, fileIdx, collection_date, hashtag_posts,
                   trending_tags, instance_stats, durable, before>>
ImportLocalPostsEndOfFile == EndOfFile("local_posts")
ImportLocalPostsCommit == CommitPass("local_posts", "hashtag_analysis")

(* ------------------------ import_hashtag_analysis ---------------------- *)
ImportHashtagAnalysisFile == NextFile("hashtag_analysis")
ImportHashtagAnalysisRow ==
    /\ AtRow("hashtag_analysis")
    /\ IF HashtagAnalysisRaises(CurrentRow)
         THEN UNCHANGED <<hashtag_posts, stats>>
         ELSE LET new == InsertOrIgnoreHashtagPosts(hashtag_posts,
                            HashtagAnalysisRecord(CurrentRow, collection_date)) IN
                /\ hashtag_posts' = new
                /\ stats' = IF Len(new) > Len(hashtag_posts)
                              THEN Bump(stats, "hashtag_posts_imported")
                              ELSE stats
    /\ rowIdx' = rowIdx + 1
    /\ UNCHANGED <<collector, dir, fault, run, pc, inFile, fileIdx, collection_date, posts,
                   trending_tags, instance_stats, durable, before>>
ImportHashtagAnalysisEndOfFile == EndOfFile("hashtag_analysis")
ImportHashtagAnalysisCommit == CommitPass("hashtag_analysis", "trending_tags")

(* -------------------------- import_trending_tags ----------------------- *)
ImportTrendingTagsFile == NextFile("trending_tags")
ImportTrendingTagsRow ==
    /\ AtRow("trending_tags")
    /\ IF TrendingTagsRaises(CurrentRow)
         THEN UNCHANGED <<trending_tags, stats>>
         ELSE LET new == InsertOrIgnoreTrendingTags(trending_tags,
                            TrendingTagsRecord(CurrentRow, collection_date)) IN
                /\ trending_tags' = new
                /\ stats' = IF Len(new) > Len(trending_tags)
                              THEN Bump(stats, "trending_tags_imported")
                              ELSE stats
    /\ rowIdx' = rowIdx + 1
    /\ UNCHANGED <<collector, dir, fault, run, pc, inFile, fileIdx, collection_date, posts,
                   hashtag_posts, instance_stats, durable, before>>
ImportTrendingTagsEndOfFile == EndOfFile("trending_tags")
ImportTrendingTagsCommit == CommitPass("trending_tags", "instance_stats")

(* ------------------------- import_instance_stats ----------------------- *)
ImportInstanceStatsFile == NextFile("instance_stats")
ImportInstanceStatsRow ==
    /\ AtRow("instance_stats")
    /\ IF InstanceStatsRaises(CurrentRow)
         THEN UNCHANGED <<instance_stats, stats>>
         ELSE LET new == InsertOrIgnoreInstanceStats(instance_stats,
                            InstanceStatsRecord(CurrentRow, collection_date)) IN
                /\ instance_stats' = new
                /\ stats' = IF Len(new) > Len(instance_stats)
                              THEN Bump(stats, "instance_stats_imported")
                              ELSE stats
    /\ rowIdx' = rowIdx + 1
    /\ UNCHANGED <<collector, dir, fault, run, pc, inFile, fileIdx, collection_date, posts,
                   hashtag_posts, trending_tags, durable, before>>
ImportInstanceStatsEndOfFile == EndOfFile("instance_stats")
ImportInstanceStatsCommit == CommitPass("instance_stats", "finish")

(* ------------------- the exporter's data dictionary -------------------- *)
\* _get_column_description('hashtag_posts', 'engagement_score'):
\* "Weighted engagement score (replies×3 + reblogs×2 + favorites)"
DescribedEngagementScore(rec) ==
    rec.replies_count * 3 + rec.reblogs_count * 2 + rec.favourites_count
\* _get_column_description('posts', 'engagement_total'):
\* "Total engagement score (sum of replies + reblogs + favorites)"
DescribedEngagementTotal(rec) ==
    rec.replies_count + rec.reblogs_count + rec.favourites_count

(* ------------------------------ create_views --------------------------- *)
\* the rows of posts collected on one date, in table order
PostsOn(table, d) == SelectSeq(table, LAMBDA p : p.collection_date = d)

\* SUM(engagement_total) over rows
RECURSIVE SumEngagementTotal(_)
SumEngagementTotal(rows) ==
    IF rows = << >> THEN 0
    ELSE Head(rows).engagement_total + SumEngagementTotal(Tail(rows))

\* the view daily_stats: one row per collection_date of posts.  AVG(engagement_total)
\* is a real number; it is kept as the fraction sum / count it is computed from.
daily_stats ==
    [d \in {posts[i].collection_date : i \in 1..Len(posts)} |->
        [collection_date |-> d,
         total_posts |-> Len(PostsOn(posts, d)),
         avg_engagement |-> [sum |-> SumEngagementTotal(PostsOn(posts, d)),
                             count |-> Len(PostsOn(posts, d))]]]

\* "hour_of_day IS NOT NULL" (the column holds an integer or NULL)
HourIsNotNull(p) == ToString(p.hour_of_day) # ToString(None)
\* the posts the WHERE clause of hourly_activity lets through, in table order
PostsWithHour == SelectSeq(posts, HourIsNotNull)
\* the view hourly_activity: one row per hour_of_day found in those posts
hourly_activity ==
    [h \in {PostsWithHour[i].hour_of_day : i \in 1..Len(PostsWithHour)} |->
        [hour_of_day |-> h,
         post_count |-> Cardinality({i \in 1..Len(PostsWithHour) :
                                        PostsWithHour[i].hour_of_day = h})]]

(* ------------------------------ print_summary -------------------------- *)
\* the number a digit character stands for
DigitValue(c) == CHOOSE n \in 0..9 : Str(n) = c
\* year, month and day of a "YYYY-MM-DD" text as numbers
YearOf(date) ==
    1000 * DigitValue(date[1]) + 100 * DigitValue(date[2]) + 10 * DigitValue(date[3])
      + DigitValue(date[4])
MonthOf(date) == 10 * DigitValue(date[6]) + DigitValue(date[7])
DayOf(date) == 10 * DigitValue(date[9]) + DigitValue(date[10])
\* texts of this one shape sort like these numbers: MIN() and MAX() of SQLite
DateOrdinal(date) == 10000 * YearOf(date) + 100 * MonthOf(date) + DayOf(date)

DaysInMonth(year, month) ==
    IF month \in {4, 6, 9, 11} THEN 30
    ELSE IF month # 2 THEN 31
    ELSE IF year % 4 = 0 /\ (year % 100 # 0 \/ year % 400 = 0) THEN 29
    ELSE 28
\* datetime.strptime(date, '%Y-%m-%d') returns: the text names a day of the calendar
IsRealDate(date) ==
    /\ YearOf(date) >= 1
    /\ MonthOf(date) \in 1..12
    /\ DayOf(date) \in 1..DaysInMonth(YearOf(date), MonthOf(date))

\* SELECT MIN(collection_date), MAX(collection_date) FROM posts
PostDates == {posts[i].collection_date : i \in 1..Len(posts)}
MinPostDate == CHOOSE d \in PostDates : \A e \in PostDates : DateOrdinal(d) <= DateOrdinal(e)
MaxPostDate == CHOOSE d \in PostDates : \A e \in PostDates : DateOrdinal(d) >= DateOrdinal(e)
\* print_summary raises ValueError where it computes the number of days
SummaryRaises ==
    PostDates # {} /\ (~IsRealDate(MinPostDate) \/ ~IsRealDate(MaxPostDate))

(* ----------------------------- run(): the end -------------------------- *)
\* create_views() commits; print_summary() and close() change no row.  When
\* print_summary raises, the exception leaves run(): no close(), no return
CreateViewsSummaryClose ==
    /\ pc = "finish"
    /\ durable' = Tables
    /\ pc' = IF SummaryRaises THEN "aborted" ELSE "done"
    /\ UNCHANGED <<collector, dir, fault, run, inFile, fileIdx, rowIdx, collection_date, posts,
                   hashtag_posts, trending_tags, instance_stats, before, stats>>

\* main() again: a new importer object (__init__ resets self.stats) on the same
\* directory and database file
RunAgain ==
    /\ pc = "done"
    /\ run < MaxRuns
    /\ run' = run + 1
    /\ pc' = "start"
    /\ stats' = InitStats
    /\ before' = Tables
    /\ collection_date' = NoDate
    /\ rowIdx' = 0
    /\ UNCHANGED <<collector, dir, fault, inFile, fileIdx, posts, hashtag_posts, trending_tags,
                   instance_stats, durable>>

Next ==
    \/ ConnectAndCreateTables
    \/ ImportPostsAnalysisFile \/ ImportPostsAnalysisRow
    \/ ImportPostsAnalysisEndOfFile \/ ImportPostsAnalysisCommit
    \/ ImportLocalPostsFile \/ ImportLocalPostsRow
    \/ ImportLocalPostsEndOfFile \/ ImportLocalPostsCommit
    \/ ImportHashtagAnalysisFile \/ ImportHashtagAnalysisRow
    \/ ImportHashtagAnalysisEndOfFile \/ ImportHashtagAnalysisCommit
    \/ ImportTrendingTagsFile \/ ImportTrendingTagsRow
    \/ ImportTrendingTagsEndOfFile \/ ImportTrendingTagsCommit
    \/ ImportInstanceStatsFile \/ ImportInstanceStatsRow
    \/ ImportInstanceStatsEndOfFile \/ ImportInstanceStatsCommit
    \/ CreateViewsSummaryClose
    \/ RunAgain

Spec == Init /\ [][Next]_vars

(* ------------------------- a run that is killed ------------------------ *)
\* The process dies (kill, power loss) somewhere in run(): the connection is gone
\* without commit or close, and the next connection finds the database as of the
\* last commit, the open transaction being rolled back.  The counters of the dead
\* process are left as they were for the record; no later run reads them.
Crash ==
    /\ pc \in {"start", "finish"} \cup FamilySet
    /\ run < MaxRuns
    /\ pc' = "crashed"
    /\ fault' = "crash"
    /\ posts' = durable.posts
    /\ hashtag_posts' = durable.hashtag_posts
    /\ trending_tags' = durable.trending_tags
    /\ instance_stats' = durable.instance_stats
    /\ inFile' = FALSE
    /\ fileIdx' = 0
    /\ rowIdx' = 0
    /\ collection_date' = NoDate
    /\ UNCHANGED <<collector, dir, run, durable, before, stats>>

\* main() again after the crash: a new importer object on the same directory and
\* database file
RunAfterCrash ==
    /\ pc = "crashed"
    /\ run < MaxRuns
    /\ run' = run + 1
    /\ pc' = "start"
    /\ stats' = InitStats
    /\ before' = Tables
    /\ UNCHANGED <<collector, dir, fault, inFile, fileIdx, rowIdx, collection_date, posts,
                   hashtag_posts, trending_tags, instance_stats, durable>>

NextCrash ==
    \/ Next
    \/ Crash
    \/ RunAfterCrash

SpecCrash == Init /\ [][NextCrash]_vars

(* -------------------- a database that cannot be written ---------------- *)
\* sqlite3.connect() or a statement of create_tables() raises: run() has no
\* handler, the exception ends the run
ConnectOrCreateTablesFails ==
    /\ pc = "start"
    /\ pc' = "aborted"
    /\ fault' = "db_error"
    /\ UNCHANGED <<collector, dir, run, inFile, fileIdx, rowIdx, collection_date, posts,
                   hashtag_posts, trending_tags, instance_stats, durable, before, stats>>

\* the current row raises in one of its int(...) conversions, before execute()
CurrentRowRaises ==
    CASE pc = "posts_analysis" -> PostsAnalysisRaises(CurrentRow)
      [] pc = "local_posts" -> LocalPostsRaises(CurrentRow)
      [] pc = "hashtag_analysis" -> HashtagAnalysisRaises(CurrentRow)
      [] pc = "trending_tags" -> TrendingTagsRaises(CurrentRow)
      [] pc = "instance_stats" -> InstanceStatsRaises(CurrentRow)

\* cursor.execute(INSERT ...) raises sqlite3.OperationalError (database is locked,
\* read-only, disk full): the "except Exception" of the row loop catches it, prints
\* a line and goes on with the next row
RowInsertFails ==
    /\ pc \in FamilySet
    /\ AtRow(pc)
    /\ ~CurrentRowRaises
    /\ rowIdx' = rowIdx + 1
    /\ fault' = "db_error"
    /\ UNCHANGED <<collector, dir, run, pc, inFile, fileIdx, collection_date, posts, hashtag_posts,
                   trending_tags, instance_stats, durable, before, stats>>

\* self.conn.commit() at the end of a pass raises: it is outside every try block,
\* the exception ends the run
CommitFails ==
    /\ pc \in FamilySet
    /\ ~inFile
    /\ fileIdx = Len(dir[pc])
    /\ pc' = "aborted"
    /\ fault' = "db_error"
    /\ UNCHANGED <<collector, dir, run, inFile, fileIdx, rowIdx, collection_date, posts,
                   hashtag_posts, trending_tags, instance_stats, durable, before, stats>>

NextDbFail ==
    \/ Next
    \/ ConnectOrCreateTablesFails
    \/ RowInsertFails
    \/ CommitFails

SpecDbFail == Init /\ [][NextDbFail]_vars

(* --------------- directories with a date no calendar has --------------- *)
\* a time stamp the collector never writes, but the glob patterns let through
StampBadDate == <<"2", "0", "2", "4", "1", "3", "4", "5", "_", "1", "2", "0", "0", "0", "0">>

FilesOfBadDate(fam, k) ==
    {[name |-> FileName(fam, StampBadDate), rows |-> rs, read_fails |-> FALSE] :
        rs \in UNION {[1..n -> RowPool(fam)] : n \in 0..k}}

GlobResultsAnyDate(fam, n, k) ==
    {fs \in [1..n -> FilesOf(fam, k) \cup FilesOfBadDate(fam, k)] :
        /\ \A i, j \in 1..n : fs[i].name = fs[j].name => i = j
        /\ RowsIn(fs) <= k}

HasBadDateFile(d) ==
    \E fam \in FamilySet : \E i \in 1..Len(d[fam]) :
        d[fam][i].name = FileName(fam, StampBadDate)

\* a directory in which some file carries the impossible date, a new database, a
\* new importer object
InitBadDate ==
    /\ \E c \in FileCounts :
         \E pa \in GlobResultsAnyDate("posts_analysis", c["posts_analysis"], MaxRows) :
         \E lp \in GlobResultsAnyDate("local_posts", c["local_posts"], MaxRows - RowsIn(pa)) :
         \E ha \in GlobResultsAnyDate("hashtag_analysis", c["hashtag_analysis"],
                               MaxRows - RowsIn(pa) - RowsIn(lp)) :
         \E tt \in GlobResultsAnyDate("trending_tags", c["trending_tags"],
                               MaxRows - RowsIn(pa) - RowsIn(lp) - RowsIn(ha)) :
         \E is \in GlobResultsAnyDate("instance_stats", c["instance_stats"],
                               MaxRows - RowsIn(pa) - RowsIn(lp) - RowsIn(ha) - RowsIn(tt)) :
              /\ dir = [posts_analysis |-> pa, local_posts |-> lp, hashtag_analysis |-> ha,
                        trending_tags |-> tt, instance_stats |-> is]
              /\ HasBadDateFile(dir)
    /\ run = 1
    /\ pc = "start"
    /\ inFile = FALSE
    /\ fileIdx = 0
    /\ rowIdx = 0
    /\ collection_date = NoDate
    /\ posts = << >>
    /\ hashtag_posts = << >>
    /\ trending_tags = << >>
    /\ instance_stats = << >>
    /\ durable = EmptyTables
    /\ before = EmptyTables
    /\ stats = InitStats
    /\ fault = "none"
    /\ collector = CollectorIdle

SpecBadDate == InitBadDate /\ [][Next]_vars

(* --------------- the date resolver on arbitrary file names ------------- *)
\* underscore-delimited segments file names are put together from
MaxSegments == 3
NameSegments == {
    <<"p", "o", "s", "t", "s">>,
    <<"2", "0", "2", "4", "1", "1", "2", "8">>,
    <<"1", "9", "9", "9", "1", "2", "3", "1">>,
    <<"1", "2", "3", "4", "5", "6", "7", "8">>,
    <<"1", "8", "3", "0", "4", "2">>,
    <<"2", "0", "2", "4", "1", "1", "2">>,
    <<"2", "0", "2", "4", "1", "1", "2", "8", "9">>,
    <<"2", "0", "2", "4", "1", "1", "2", "a">>,
    <<"2", "0", "2", "4", "1", "1", "2", "8", ".", "c", "s", "v">>,
    << >> }

\* '_'.join(segments)
RECURSIVE JoinUnderscore(_)
JoinUnderscore(segments) ==
    IF Len(segments) = 1 THEN segments[1]
    ELSE segments[1] \o <<"_">> \o JoinUnderscore(Tail(segments))

SampleFileName == FileName("posts_analysis", StampDayA1)
SampleDate == <<"2", "0", "2", "4", "-", "1", "1", "-", "2", "8">>

FileNames ==
    {JoinUnderscore(segs) : segs \in UNION {[1..n -> NameSegments] : n \in 1..MaxSegments}}
      \cup {SampleFileName}

\* a directory holding one file of the given name
InitDate ==
    /\ \E n \in FileNames :
         dir = [posts_analysis |-> <<[name |-> n, rows |-> << >>, read_fails |-> FALSE]>>,
                local_posts |-> << >>, hashtag_analysis |-> << >>,
                trending_tags |-> << >>, instance_stats |-> << >>]
    /\ run = 1
    /\ pc = "start"
    /\ inFile = FALSE
    /\ fileIdx = 0
    /\ rowIdx = 0
    /\ collection_date = NoDate
    /\ posts = << >>
    /\ hashtag_posts = << >>
    /\ trending_tags = << >>
    /\ instance_stats = << >>
    /\ durable = EmptyTables
    /\ before = EmptyTables
    /\ stats = InitStats
    /\ fault = "none"
    /\ collector = CollectorIdle

\* collection_date = self.extract_date_from_filename(file_path.name)
ResolveDate ==
    /\ pc = "start"
    /\ collection_date' = extract_date_from_filename(dir["posts_analysis"][1].name)
    /\ pc' = "resolved"
    /\ UNCHANGED <<collector, dir, fault, run, inFile, fileIdx, rowIdx, posts, hashtag_posts, trending_tags,
                   instance_stats, durable, before, stats>>

NextDate == ResolveDate

SpecDate == InitDate /\ [][NextDate]_vars

(* ------------------------ mastodon_collector.py ------------------------ *)
\* the importer's variables, which the collector never touches
importerVars == <<dir, run, pc, inFile, fileIdx, rowIdx, collection_date, posts,
                  hashtag_posts, trending_tags, instance_stats, durable, before, stats,
                  fault>>

Timelines == {"public", "local"}

\* the numbers of statuses a page is tried with: none, one, a full page
PageLengths == {0, 1, PerRequest}

\* the Link header of a response: absent, without rel="next", with rel="next" and
\* a max_id in its URL, with rel="next" and no max_id
Links == {"absent", "prev_only", "next", "next_without_max_id"}
HasNext(link) == link \in {"next", "next_without_max_id"}

\* the statuses of the r-th response, n of them, in the server's order
PageOf(r, n) == [i \in 1..n |-> <<r, i>>]

\* what the r-th requests.get can bring: a RequestException (no connection, time
\* out, an HTTP error status raised by raise_for_status), or a JSON list of
\* statuses with its Link header
RequestError == [kind |-> "error", data |-> << >>, link |-> "absent"]
OkResponses(r, lengths) ==
    {[kind |-> "ok", data |-> PageOf(r, n), link |-> l] : n \in lengths, l \in Links}

\* collect_public_timeline(limit) / collect_local_timeline(limit) call
\* _get_paginated_data with max_pages = (limit // 40) + 2
CallGetPaginatedData ==
    /\ collector.pc = "start"
    /\ collector' = [collector EXCEPT !.pc = "paging",
                                      !.max_pages = (collector.limit \div PerRequest) + 2,
                                      !.page = 0, !.max_id = 0, !.all_data = << >>]
    /\ UNCHANGED importerVars

InLoop == collector.pc = "paging" /\ collector.page < collector.max_pages
Received(resp) == Append(collector.responses, resp)

\* the request raises a RequestException: printed, break
RequestFailsDiscarding ==
    /\ InLoop
    /\ collector' = [collector EXCEPT !.pc = "returned", !.all_data = << >>,
                                      !.responses = Received(RequestError)]
    /\ UNCHANGED importerVars
RequestFails ==
    /\ InLoop
    /\ collector' = [collector EXCEPT !.pc = "returned",
                                      !.responses = Received(RequestError)]
    /\ UNCHANGED importerVars

\* if not data: break
EmptyPage ==
    /\ InLoop
    /\ \E resp \in OkResponses(Len(collector.responses) + 1, {0}) :
         collector' = [collector EXCEPT !.pc = "returned", !.responses = Received(resp)]
    /\ UNCHANGED importerVars

\* all_data.extend(data); no Link header, or none with rel="next": break
PageWithoutNext ==
    /\ InLoop
    /\ \E resp \in OkResponses(Len(collector.responses) + 1, PageLengths \ {0}) :
         /\ ~HasNext(resp.link)
         /\ collector' = [collector EXCEPT !.pc = "returned",
                                           !.all_data = collector.all_data \o resp.data,
                                           !.responses = Received(resp)]
    /\ UNCHANGED importerVars

\* all_data.extend(data); rel="next" found: max_id taken from its URL when it has
\* one, sleep, next iteration
PageWithNext ==
    /\ InLoop
    /\ \E resp \in OkResponses(Len(collector.responses) + 1, PageLengths \ {0}) :
         /\ HasNext(resp.link)
         /\ collector' = [collector EXCEPT !.page = collector.page + 1,
                                           !.max_id = IF resp.link = "next"
                                                      THEN Len(collector.responses) + 1
                                                      ELSE collector.max_id,
                                           !.all_data = collector.all_data \o resp.data,
                                           !.responses = Received(resp)]
    /\ UNCHANGED importerVars

\* range(max_pages) is used up: return all_data
RangeExhausted ==
    /\ collector.pc = "paging"
    /\ collector.page >= collector.max_pages
    /\ collector' = [collector EXCEPT !.pc = "returned"]
    /\ UNCHANGED importerVars

\* the post_id column of the CSV file, one row per status
PostIdOf(status) == status
PostIdColumn(statuses) == [i \in 1..Len(statuses) |-> PostIdOf(statuses[i])]

\* if posts: json.dump(posts) and one CSV row per post; the statuses have the
\* created_at format of the API
WriteTimelineFiles ==
    /\ collector.pc = "returned"
    /\ collector' = [collector EXCEPT !.pc = "written",
                                      !.files_written = (collector.all_data # << >>),
                                      !.json_file = collector.all_data,
                                      !.csv_file = PostIdColumn(collector.all_data)]
    /\ UNCHANGED importerVars

\* one call of collect_public_timeline or collect_local_timeline, the importer idle
InitCollector ==
    /\ dir = [fam \in FamilySet |-> << >>]
    /\ run = 1
    /\ pc = "start"
    /\ inFile = FALSE
    /\ fileIdx = 0
    /\ rowIdx = 0
    /\ collection_date = NoDate
    /\ posts = << >>
    /\ hashtag_posts = << >>
    /\ trending_tags = << >>
    /\ instance_stats = << >>
    /\ durable = EmptyTables
    /\ before = EmptyTables
    /\ stats = InitStats
    /\ fault = "none"
    /\ \E tl \in Timelines, lim \in 0..MaxLimit :
         collector = [CollectorIdle EXCEPT !.pc = "start", !.timeline = tl, !.limit = lim]

NextCollector ==
    \/ CallGetPaginatedData
    \/ RequestFails
    \/ EmptyPage
    \/ PageWithoutNext
    \/ PageWithNext
    \/ RangeExhausted
    \/ WriteTimelineFiles

SpecCollector == InitCollector /\ [][NextCollector]_vars

(* ------------------- a whole run as a function of the directory -------- *)
\* what one iteration of "for row in reader" of a family makes of the tables
ImportRow(tables, fam, row, date) ==
    CASE fam = "posts_analysis" ->
           IF PostsAnalysisRaises(row) THEN tables
           ELSE [tables EXCEPT !.posts =
                    InsertOrIgnorePosts(@, PostsAnalysisRecord(row, date))]
      [] fam = "local_posts" ->
           IF LocalPostsRaises(row) THEN tables
           ELSE [tables EXCEPT !.posts =
                    InsertOrIgnorePosts(@, LocalPostsRecord(row, date))]
      [] fam = "hashtag_analysis" ->
           IF HashtagAnalysisRaises(row) THEN tables
           ELSE [tables EXCEPT !.hashtag_posts =
                    InsertOrIgnoreHashtagPosts(@, HashtagAnalysisRecord(row, date))]
      [] fam = "trending_tags" ->
           IF TrendingTagsRaises(row) THEN tables
           ELSE [tables EXCEPT !.trending_tags =
                    InsertOrIgnoreTrendingTags(@, TrendingTagsRecord(row, date))]
      [] fam = "instance_stats" ->
           IF InstanceStatsRaises(row) THEN tables
           ELSE [tables EXCEPT !.instance_stats =
                    InsertOrIgnoreInstanceStats(@, InstanceStatsRecord(row, date))]

\* the rows of one file, first to last
RECURSIVE ImportRows(_, _, _, _)
ImportRows(tables, fam, rows, date) ==
    IF rows = << >> THEN tables
    ELSE ImportRows(ImportRow(tables, fam, Head(rows), date), fam, Tail(rows), date)

\* the files of one family in the order glob() returned them; a file without a
\* date is passed over
RECURSIVE ImportFiles(_, _, _)
ImportFiles(tables, fam, files) ==
    IF files = << >> THEN tables
    ELSE LET date == extract_date_from_filename(Head(files).name) IN
           ImportFiles(IF date = NoDate THEN tables
                       ELSE ImportRows(tables, fam, Head(files).rows, date),
                       fam, Tail(files))

\* the five passes of run(), in its order, over directory d
RECURSIVE ImportFamilies(_, _, _)
ImportFamilies(tables, d, k) ==
    IF k > Len(Families) THEN tables
    ELSE ImportFamilies(ImportFiles(tables, Families[k], d[Families[k]]), d, k + 1)
RunOver(tables, d) == ImportFamilies(tables, d, 1)

(* ------------------------------ properties ----------------------------- *)
\* the rows of a table, each with the number of times the table holds it
RowSet(table) == {table[i] : i \in 1..Len(table)}
Copies(table, r) == Cardinality({i \in 1..Len(table) : table[i] = r})
SameRows(t1, t2) ==
    \A r \in RowSet(t1) \cup RowSet(t2) : Copies(t1, r) = Copies(t2, r)

\* a position where an underscore-delimited segment of exactly 8 digits begins
DateSegmentAt(name, i) ==
    /\ i + 7 <= Len(name)
    /\ \A k \in i..(i + 7) : name[k] \in Digits
    /\ (i = 1 \/ name[i - 1] = "_")
    /\ (i + 7 = Len(name) \/ name[i + 8] = "_")
DateSegments(name) == {i \in 1..Len(name) : DateSegmentAt(name, i)}
Min(S) == CHOOSE x \in S : \A y \in S : x <= y

\* the files of a family whose name carries a date, and their rows
DatedRows(fam) ==
    RowsIn(SelectSeq(dir[fam], LAMBDA f : DateSegments(f.name) # {}))

RunTwiceDone == run = 2 /\ pc = "done"

\* C1: when run() has gone twice over the same directory, each of the four tables
\* holds the same rows as after the first run.
C1_RerunLeavesTables ==
    RunTwiceDone =>
        /\ SameRows(posts, before.posts)
        /\ SameRows(hashtag_posts, before.hashtag_posts)
        /\ SameRows(trending_tags, before.trending_tags)
        /\ SameRows(instance_stats, before.instance_stats)

\* C2: at the end of a second run, for each entity whose files hold rows, the
\* imported counter is 0 and the duplicate counter is the number of those rows.
C2_ReimportCounters ==
    RunTwiceDone =>
        /\ DatedRows("posts_analysis") + DatedRows("local_posts") > 0 =>
             /\ stats.posts_imported = 0
             /\ stats.posts_duplicates = DatedRows("posts_analysis") + DatedRows("local_posts")
        /\ DatedRows("hashtag_analysis") > 0 =>
             /\ stats.hashtag_posts_imported = 0
             /\ "hashtag_posts_duplicates" \in DOMAIN stats
             /\ stats.hashtag_posts_duplicates = DatedRows("hashtag_analysis")
        /\ DatedRows("trending_tags") > 0 =>
             /\ stats.trending_tags_imported = 0
             /\ "trending_tags_duplicates" \in DOMAIN stats
             /\ stats.trending_tags_duplicates = DatedRows("trending_tags")
        /\ DatedRows("instance_stats") > 0 =>
             /\ stats.instance_stats_imported = 0
             /\ "instance_stats_duplicates" \in DOMAIN stats
             /\ stats.instance_stats_duplicates = DatedRows("instance_stats")

\* stored rows keep their place and their column values in every step
RowsKept(table, tableNext) ==
    \A i \in 1..Len(table) : Len(tableNext) >= i /\ tableNext[i] = table[i]

\* C3: posts holds at most one row per post_id, and a stored row is never changed
\* by a later insert (the first occurrence survives).
C3_PostUniqueFirstWins ==
    /\ [](\A i, j \in 1..Len(posts) : posts[i].post_id = posts[j].post_id => i = j)
    /\ [][RowsKept(posts, posts')]_vars

\* C4: hashtag_posts holds at most one row per (post_id, collected_hashtag), and
\* rows of one post under different hashtags are all kept.
C4_HashtagPairUnique ==
    /\ [](\A i, j \in 1..Len(hashtag_posts) :
            (/\ hashtag_posts[i].post_id = hashtag_posts[j].post_id
             /\ hashtag_posts[i].collected_hashtag = hashtag_posts[j].collected_hashtag)
              => i = j)
    /\ [][RowsKept(hashtag_posts, hashtag_posts')]_vars

\* C5: trending_tags holds at most one row per (collection_date, tag_name), and a
\* second file of the same date leaves the first snapshot of a tag as it is.
C5_TrendingSnapshotUnique ==
    /\ [](\A i, j \in 1..Len(trending_tags) :
            (/\ trending_tags[i].collection_date = trending_tags[j].collection_date
             /\ trending_tags[i].tag_name = trending_tags[j].tag_name)
              => i = j)
    /\ [][RowsKept(trending_tags, trending_tags')]_vars

\* C6: instance_stats holds at most one row per collection_date; stored rows are
\* never changed, and a row arriving for a date already stored changes nothing.
C6_InstanceSnapshotUnique ==
    /\ [](\A i, j \in 1..Len(instance_stats) :
            instance_stats[i].collection_date = instance_stats[j].collection_date => i = j)
    /\ [][/\ RowsKept(instance_stats, instance_stats')
          /\ (\E i \in 1..Len(instance_stats) :
                 instance_stats[i].collection_date = collection_date)
               => instance_stats' = instance_stats]_vars
\* two rows of one date were processed, the first of them is the one stored
C6_Witness ==
    /\ pc = "instance_stats" /\ inFile /\ rowIdx = 2 /\ run = 1
    /\ ~InstanceStatsRaises(CurrentFile.rows[1])
    /\ ~InstanceStatsRaises(CurrentFile.rows[2])
    /\ CurrentFile.rows[1] # CurrentFile.rows[2]
    /\ Len(instance_stats) = 1
    /\ instance_stats[1].timestamp = CurrentFile.rows[1].timestamp

\* C7: the resolved date is "YYYY-MM-DD" of the leftmost underscore-delimited
\* segment of exactly 8 digits, and "no date" exactly when there is no such segment.
C7_DateDerivation ==
    pc = "resolved" =>
        LET name == dir["posts_analysis"][1].name IN
          /\ DateSegments(name) = {} <=> collection_date = NoDate
          /\ DateSegments(name) # {} =>
               LET i == Min(DateSegments(name)) IN
                 collection_date = <<name[i], name[i + 1], name[i + 2], name[i + 3], "-",
                                      name[i + 4], name[i + 5], "-",
                                      name[i + 6], name[i + 7]>>
          /\ name = SampleFileName => collection_date = SampleDate
\* posts_analysis_20241128_183042.csv has been resolved to 2024-11-28
C7_Witness ==
    /\ pc = "resolved"
    /\ dir["posts_analysis"][1].name = SampleFileName
    /\ collection_date = SampleDate

\* C8: the step that meets a file without a date leaves all tables alone, adds 1
\* to files_skipped and to no other counter, and stays in the loop of its family.
C8_UndatedFileSkipped ==
    [][(/\ pc \in FamilySet /\ ~inFile /\ fileIdx < Len(dir[pc])
        /\ DateSegments(dir[pc][fileIdx + 1].name) = {})
         => /\ Tables' = Tables
            /\ stats' = Bump(stats, "files_skipped")
            /\ pc' = pc /\ ~inFile' /\ fileIdx' = fileIdx + 1]_vars
\* a file without a date that holds rows has just been skipped
C8_Witness ==
    /\ pc \in FamilySet /\ ~inFile /\ fileIdx = 1 /\ run = 1
    /\ DateSegments(dir[pc][1].name) = {}
    /\ Len(dir[pc][1].rows) > 0
    /\ stats = Bump(InitStats, "files_skipped")
    /\ Tables = EmptyTables

\* C9: every stored hashtag row has engagement_score = r + 2*b + f of its counters.
C9_WeightedScoreAnyRow ==
    \A i \in 1..Len(hashtag_posts) :
        hashtag_posts[i].engagement_score =
            hashtag_posts[i].replies_count + 2 * hashtag_posts[i].reblogs_count
              + hashtag_posts[i].favourites_count

\* the hashtag_analysis row step stores a new row
HashtagRowStored ==
    /\ pc = "hashtag_analysis" /\ inFile /\ rowIdx < Len(CurrentFile.rows)
    /\ Len(hashtag_posts') > Len(hashtag_posts)
\* C9 (amended): the stored engagement_score is the integer of the row's
\* engagement_score column, 0 when that is absent or empty; for a row written by
\* collect_hashtag_timeline it is r + 2*b + f.
C9_ScoreFromFile ==
    [][HashtagRowStored =>
         LET row == CurrentRow
             new == hashtag_posts'[Len(hashtag_posts')] IN
           /\ new.engagement_score =
                 (IF row.engagement_score \in {None, ""} THEN 0
                  ELSE ParseInt(row.engagement_score))
           /\ row \in CollectorHashtagRows =>
                 new.engagement_score =
                     new.replies_count + 2 * new.reblogs_count + new.favourites_count]_vars
\* a collector row with r=1, b=2, f=3 is stored with score 8, and a row whose file
\* carries another score is stored too
C9_Witness ==
    /\ \E i \in 1..Len(hashtag_posts) :
         /\ hashtag_posts[i].replies_count = 1 /\ hashtag_posts[i].reblogs_count = 2
         /\ hashtag_posts[i].favourites_count = 3 /\ hashtag_posts[i].engagement_score = 8
    /\ \E i \in 1..Len(hashtag_posts) : hashtag_posts[i].engagement_score = 0

\* the local_posts row step stores a new row
LocalRowStored ==
    /\ pc = "local_posts" /\ inFile /\ rowIdx < Len(CurrentFile.rows)
    /\ Len(posts') > Len(posts)
\* C10: a row stored from a local_posts row has the row's replies, reblogs and
\* favourites as counters and their sum as engagement_total, whatever the file's
\* engagement_total column says.
C10_LocalEngagementSum ==
    [][LocalRowStored =>
         LET row == CurrentRow
             new == posts'[Len(posts')] IN
           /\ new.replies_count = IntOrZero(row.replies)
           /\ new.reblogs_count = IntOrZero(row.reblogs)
           /\ new.favourites_count = IntOrZero(row.favourites)
           /\ new.engagement_total =
                 new.replies_count + new.reblogs_count + new.favourites_count
           /\ new.source = "local_timeline"]_vars
\* replies 1, reblogs 2, favourites 3 are stored with engagement_total 6 from a
\* file whose engagement_total column says 9
C10_Witness ==
    /\ pc = "local_posts" /\ inFile /\ rowIdx >= 1
    /\ CurrentFile.rows[rowIdx].engagement_total = "9"
    /\ Len(posts) >= 1
    /\ posts[Len(posts)].source = "local_timeline"
    /\ posts[Len(posts)].replies_count = 1 /\ posts[Len(posts)].reblogs_count = 2
    /\ posts[Len(posts)].favourites_count = 3
    /\ posts[Len(posts)].engagement_total = 6

\* replies + reblogs + favourites summed over rows
RECURSIVE SumCounters(_)
SumCounters(rows) ==
    IF rows = << >> THEN 0
    ELSE Head(rows).replies_count + Head(rows).reblogs_count
           + Head(rows).favourites_count + SumCounters(Tail(rows))

\* C11: when a run has ended, for every collection_date d of posts the daily_stats
\* row of d has total_posts = the number of posts of d, and avg_engagement = the
\* mean of replies + reblogs + favourites over the posts of d.
C11_DailyStatsMeanOfCounters ==
    pc = "done" =>
        \A d \in DOMAIN daily_stats :
            LET n == Cardinality({i \in 1..Len(posts) : posts[i].collection_date = d}) IN
              /\ daily_stats[d].total_posts = n
              /\ daily_stats[d].avg_engagement.sum * n =
                     SumCounters(PostsOn(posts, d)) * daily_stats[d].avg_engagement.count

\* the families whose rows carry a post_id
PostIdFamilies == {"posts_analysis", "local_posts", "hashtag_analysis"}

\* C12: the step at a row without post_id (absent or empty) stores nothing in any
\* table, adds 1 to one counter that is not files_skipped, and goes on to the next
\* row of the same file.
C12_RowWithoutPostIdSkipped ==
    [][(/\ pc \in PostIdFamilies /\ AtRow(pc)
        /\ CurrentRow.post_id \in {None, ""})
         => /\ Tables' = Tables
            /\ \E c \in DOMAIN stats \ {"files_skipped"} : stats' = Bump(stats, c)
            /\ pc' = pc /\ inFile' /\ fileIdx' = fileIdx /\ rowIdx' = rowIdx + 1]_vars

\* the integer cells of a row of each family, each with the column it is stored in
NumericColumns(fam) ==
    CASE fam = "posts_analysis" ->
           {<<"replies_count", "replies_count">>, <<"reblogs_count", "reblogs_count">>,
            <<"favourites_count", "favourites_count">>, <<"hour_of_day", "hour_of_day">>}
      [] fam = "local_posts" ->
           {<<"replies", "replies_count">>, <<"reblogs", "reblogs_count">>,
            <<"favourites", "favourites_count">>}
      [] fam = "hashtag_analysis" ->
           {<<"engagement_score", "engagement_score">>, <<"replies_count", "replies_count">>,
            <<"reblogs_count", "reblogs_count">>, <<"favourites_count", "favourites_count">>}
      [] fam = "trending_tags" ->
           {<<"total_uses", "total_uses">>, <<"day_1_uses", "day_1_uses">>,
            <<"day_2_uses", "day_2_uses">>}
      [] fam = "instance_stats" ->
           {<<"user_count", "user_count">>, <<"status_count", "status_count">>,
            <<"domain_count", "domain_count">>}

\* the table a family is imported into
TableOf(fam) ==
    CASE fam \in {"posts_analysis", "local_posts"} -> posts
      [] fam = "hashtag_analysis" -> hashtag_posts
      [] fam = "trending_tags" -> trending_tags
      [] fam = "instance_stats" -> instance_stats

\* the current row has a cell that is text but no number
NonNumericCell ==
    \E c \in NumericColumns(pc) :
        CurrentRow[c[1]] \notin {None, ""} /\ ~IsNumeral(CurrentRow[c[1]])

\* the key of the current row is the key of a stored row
KeyStored ==
    CASE pc \in {"posts_analysis", "local_posts"} ->
           \E i \in 1..Len(posts) :
               PostsKeyClash(posts[i], [post_id |-> CurrentRow.post_id])
      [] pc = "hashtag_analysis" ->
           \E i \in 1..Len(hashtag_posts) :
               HashtagPostsKeyClash(hashtag_posts[i],
                   [post_id |-> CurrentRow.post_id,
                    collected_hashtag |-> CurrentRow.collected_hashtag])
      [] pc = "trending_tags" ->
           \E i \in 1..Len(trending_tags) :
               TrendingTagsKeyClash(trending_tags[i],
                   [collection_date |-> collection_date, tag_name |-> CurrentRow.tag_name])
      [] pc = "instance_stats" ->
           \E i \in 1..Len(instance_stats) :
               InstanceStatsKeyClash(instance_stats[i], [collection_date |-> collection_date])

\* the step stores one new row in the table of the family at work
OneRowStored == Len(TableOf(pc)') = Len(TableOf(pc)) + 1

\* C13: at any row whose key is not stored yet, the row step stores a row, in which
\* every integer column is 0 where the cell is missing, empty or no number.
C13_NonNumericStoredAsZero ==
    [][(pc \in FamilySet /\ AtRow(pc) /\ ~KeyStored)
         => /\ OneRowStored
            /\ \A c \in NumericColumns(pc) :
                 (CurrentRow[c[1]] \in {None, ""} \/ ~IsNumeral(CurrentRow[c[1]]))
                   => TableOf(pc)'[Len(TableOf(pc)')][c[2]] = 0]_vars

\* C13 (amended): a row with a cell that is text but no number is dropped: the step
\* stores nothing, counts nothing and goes on to the next row.  Any other row whose
\* key is not stored yet is stored, each integer column being 0 where the cell is
\* missing or empty and the number the cell spells otherwise.
C13_EmptyAsZeroNonNumericDropped ==
    [][(pc \in FamilySet /\ AtRow(pc))
         => IF NonNumericCell
              THEN /\ Tables' = Tables /\ stats' = stats
                   /\ pc' = pc /\ inFile' /\ fileIdx' = fileIdx /\ rowIdx' = rowIdx + 1
              ELSE ~KeyStored =>
                     /\ OneRowStored
                     /\ \A c \in NumericColumns(pc) :
                          TableOf(pc)'[Len(TableOf(pc)')][c[2]] =
                              (IF CurrentRow[c[1]] \in {None, ""} THEN 0
                               ELSE ParseInt(CurrentRow[c[1]]))]_vars
\* a row with replies_count 'abc' was dropped, the next row, with an empty and a
\* missing counter, is stored with 0 in both
C13_Witness ==
    /\ pc = "posts_analysis" /\ inFile /\ rowIdx = 2 /\ run = 1
    /\ CurrentFile.rows[1].replies_count = "abc"
    /\ CurrentFile.rows[2].reblogs_count = "" /\ CurrentFile.rows[2].favourites_count = None
    /\ Len(posts) = 1
    /\ posts[1].replies_count = 2 /\ posts[1].reblogs_count = 0
    /\ posts[1].favourites_count = 0
    /\ stats.posts_imported = 1

\* C14: the step at a row whose processing raises stores nothing, adds 1 to one
\* counter (the count of skipped rows), and goes on to the next row of the file,
\* which is counted in files_processed when its last row has been read.
C14_RaisingRowCounted ==
    /\ [][(pc \in FamilySet /\ AtRow(pc) /\ NonNumericCell)
            => /\ Tables' = Tables
               /\ \E c \in DOMAIN stats : stats' = Bump(stats, c)
               /\ pc' = pc /\ inFile' /\ fileIdx' = fileIdx /\ rowIdx' = rowIdx + 1]_vars
    /\ [][(/\ pc \in FamilySet /\ inFile /\ rowIdx = Len(CurrentFile.rows)
           /\ ~CurrentFile.read_fails)
            => stats' = Bump(stats, "files_processed")]_vars

\* the counters of rows added, one per entity
ImportedCounters ==
    {"posts_imported", "hashtag_posts_imported", "trending_tags_imported",
     "instance_stats_imported"}

\* C15: at the end of a run each imported counter is the number of rows the run
\* added to its table, and every row step whose row does not raise adds 1 to
\* exactly one counter: an imported counter when a row was added, a counter of
\* duplicates when the key was already stored.
C15_CounterAccuracy ==
    /\ [](pc = "done" =>
            /\ stats.posts_imported = Len(posts) - Len(before.posts)
            /\ stats.hashtag_posts_imported = Len(hashtag_posts) - Len(before.hashtag_posts)
            /\ stats.trending_tags_imported = Len(trending_tags) - Len(before.trending_tags)
            /\ stats.instance_stats_imported =
                   Len(instance_stats) - Len(before.instance_stats))
    /\ [][(pc \in FamilySet /\ AtRow(pc) /\ ~NonNumericCell)
            => \E c \in DOMAIN stats \ {"files_processed", "files_skipped"} :
                  /\ stats' = Bump(stats, c)
                  /\ c \in ImportedCounters <=> OneRowStored]_vars

\* C16: in every step of every run, each row of posts, hashtag_posts, trending_tags
\* and instance_stats stays where it is with the same column values, in the tables
\* the importer works on and in the committed database alike.
C16_AppendOnly ==
    [][/\ RowsKept(posts, posts') /\ RowsKept(hashtag_posts, hashtag_posts')
       /\ RowsKept(trending_tags, trending_tags')
       /\ RowsKept(instance_stats, instance_stats')
       /\ RowsKept(durable.posts, durable.posts')
       /\ RowsKept(durable.hashtag_posts, durable.hashtag_posts')
       /\ RowsKept(durable.trending_tags, durable.trending_tags')
       /\ RowsKept(durable.instance_stats, durable.instance_stats')]_vars
\* a local_posts row with the post_id of a stored public-timeline post, but other
\* values, has been processed in a second run: the stored row is as it was
C16_Witness ==
    /\ run = 2 /\ pc = "local_posts" /\ inFile /\ rowIdx = 1
    /\ CurrentFile.rows[1].post_id = "p1"
    /\ Len(posts) = 1 /\ posts[1].post_id = "p1"
    /\ posts[1].source = "public_timeline" /\ posts[1].engagement_total = 0
    /\ stats.posts_duplicates = 2

\* the orders glob() can return the files of a list in
Orders(files) ==
    {[i \in 1..Len(files) |-> files[p[i]]] :
        p \in {q \in [1..Len(files) -> 1..Len(files)] :
                 \A i, j \in 1..Len(files) : q[i] = q[j] => i = j}}
\* the directory with the files of each family in any order
Reorderings(d) ==
    {[posts_analysis |-> pa, local_posts |-> lp, hashtag_analysis |-> ha,
      trending_tags |-> tt, instance_stats |-> is] :
        pa \in Orders(d["posts_analysis"]), lp \in Orders(d["local_posts"]),
        ha \in Orders(d["hashtag_analysis"]), tt \in Orders(d["trending_tags"]),
        is \in Orders(d["instance_stats"])}

\* the keys of the rows of each table, row by row
PostsKeys(t) == [i \in 1..Len(t) |-> t[i].post_id]
HashtagPostsKeys(t) == [i \in 1..Len(t) |-> <<t[i].post_id, t[i].collected_hashtag>>]
TrendingTagsKeys(t) == [i \in 1..Len(t) |-> <<t[i].collection_date, t[i].tag_name>>]
InstanceStatsKeys(t) == [i \in 1..Len(t) |-> t[i].collection_date]
SameKeys(a, b) ==
    /\ SameRows(PostsKeys(a.posts), PostsKeys(b.posts))
    /\ SameRows(HashtagPostsKeys(a.hashtag_posts), HashtagPostsKeys(b.hashtag_posts))
    /\ SameRows(TrendingTagsKeys(a.trending_tags), TrendingTagsKeys(b.trending_tags))
    /\ SameRows(InstanceStatsKeys(a.instance_stats), InstanceStatsKeys(b.instance_stats))
SameContents(a, b) ==
    /\ SameRows(a.posts, b.posts) /\ SameRows(a.hashtag_posts, b.hashtag_posts)
    /\ SameRows(a.trending_tags, b.trending_tags)
    /\ SameRows(a.instance_stats, b.instance_stats)

RunOnceDone == run = 1 /\ pc = "done"

\* C17: when a run over a new database has ended, the four tables hold the rows
\* (in all modelled columns) that a run over the same files holds for every other
\* order of the files within the families.
C17_SameContentsAnyOrder ==
    RunOnceDone =>
        \A d \in Reorderings(dir) : SameContents(RunOver(EmptyTables, d), Tables)

\* C17 (amended): for every order of the files within the families the four tables
\* end with the same keys, each as often; the run itself ends with the tables the
\* passes yield for its own order.
C17_SameKeysAnyOrder ==
    RunOnceDone =>
        /\ RunOver(EmptyTables, dir) = Tables
        /\ \A d \in Reorderings(dir) : SameKeys(RunOver(EmptyTables, d), Tables)
\* two posts_analysis files of different days hold the same post: one row is stored,
\* and in the other order of the two files it would carry the other date
C17_Witness ==
    /\ RunOnceDone
    /\ Len(dir["posts_analysis"]) = 2
    /\ Len(posts) = 1 /\ posts[1].post_id = "p1"
    /\ \E d \in Reorderings(dir) :
         LET t == RunOver(EmptyTables, d) IN
           /\ Len(t.posts) = 1 /\ t.posts[1].post_id = "p1"
           /\ t.posts[1].collection_date # posts[1].collection_date

\* no two rows of a table have the same key
KeysOnce ==
    /\ \A i, j \in 1..Len(posts) : PostsKeyClash(posts[i], posts[j]) => i = j
    /\ \A i, j \in 1..Len(hashtag_posts) :
         HashtagPostsKeyClash(hashtag_posts[i], hashtag_posts[j]) => i = j
    /\ \A i, j \in 1..Len(trending_tags) :
         TrendingTagsKeyClash(trending_tags[i], trending_tags[j]) => i = j
    /\ \A i, j \in 1..Len(instance_stats) :
         InstanceStatsKeyClash(instance_stats[i], instance_stats[j]) => i = j

\* C18: when a run was killed at any point and the import was then run again to
\* its end over the same files, the four tables hold the rows one uninterrupted
\* run over a new database yields, and no key is stored twice.
C18_CrashThenRerun ==
    (pc = "done" /\ fault = "crash") =>
        /\ SameContents(Tables, RunOver(EmptyTables, dir))
        /\ KeysOnce

\* the rows this run has added to posts from posts_analysis files
PublicRowsOfRun ==
    Cardinality({i \in (Len(before.posts) + 1)..Len(posts) :
                    posts[i].source = "public_timeline"})

\* C19: no row step and no file step commits, leaving a pass commits all there is;
\* so a crash during pass k leaves the database with the rows it had when the run
\* began, the rows of the passes 1..k-1 of the run, and no row of pass k.
C19_CommitPerPass ==
    /\ [][(pc \in FamilySet /\ pc' = pc) => durable' = durable]_vars
    /\ [][(pc \in FamilySet /\ pc' \notin {pc, "crashed"}) => durable' = Tables]_vars
    /\ [][pc' = "crashed" =>
            CASE pc \in {"start", "posts_analysis"} -> Tables' = before
              [] pc = "local_posts" ->
                   /\ posts' = SubSeq(posts, 1, Len(before.posts) + PublicRowsOfRun)
                   /\ hashtag_posts' = before.hashtag_posts
                   /\ trending_tags' = before.trending_tags
                   /\ instance_stats' = before.instance_stats
              [] pc = "hashtag_analysis" ->
                   /\ posts' = posts
                   /\ hashtag_posts' = before.hashtag_posts
                   /\ trending_tags' = before.trending_tags
                   /\ instance_stats' = before.instance_stats
              [] pc = "trending_tags" ->
                   /\ posts' = posts /\ hashtag_posts' = hashtag_posts
                   /\ trending_tags' = before.trending_tags
                   /\ instance_stats' = before.instance_stats
              [] pc = "instance_stats" ->
                   /\ posts' = posts /\ hashtag_posts' = hashtag_posts
                   /\ trending_tags' = trending_tags
                   /\ instance_stats' = before.instance_stats
              [] pc = "finish" -> Tables' = Tables]_vars
\* a run killed in its hashtag_analysis pass: the post of the completed passes is
\* in the database, the hashtag row the run had already inserted is not
C19_Witness ==
    /\ pc = "crashed"
    /\ stats.posts_imported = 1 /\ Len(posts) = 1
    /\ stats.hashtag_posts_imported = 1 /\ hashtag_posts = << >>

\* C20: the step in which the database first raises an error (in connect or
\* create_tables, in the insert of a row, in a commit) ends the run: the run is
\* aborted, and a run in which the database has raised an error processes no
\* further row or file and does not reach its summary.
C20_DbErrorAborts ==
    /\ [][(fault = "none" /\ fault' = "db_error") => pc' = "aborted"]_vars
    /\ [](fault = "db_error" => pc = "aborted")

\* C21: whatever the files are, no exception leaves run(): the run is never
\* aborted (it goes from pass to pass to its summary and close).
C21_NoExceptionEscapes == pc # "aborted"

\* the files of directory d that the importer cannot use: no date in the name, or
\* not readable to the end
RECURSIVE UnusableIn(_)
UnusableIn(files) ==
    IF files = << >> THEN 0
    ELSE (IF DateSegments(Head(files).name) = {} \/ Head(files).read_fails THEN 1 ELSE 0)
           + UnusableIn(Tail(files))
FilesInDirectory ==
    Len(dir["posts_analysis"]) + Len(dir["local_posts"]) + Len(dir["hashtag_analysis"])
      + Len(dir["trending_tags"]) + Len(dir["instance_stats"])
UnusableInDirectory ==
    UnusableIn(dir["posts_analysis"]) + UnusableIn(dir["local_posts"])
      + UnusableIn(dir["hashtag_analysis"]) + UnusableIn(dir["trending_tags"])
      + UnusableIn(dir["instance_stats"])

\* C22: a step that leaves a file behind adds 1 to exactly one of files_processed
\* and files_skipped; when the passes are over the two counters add up to the
\* number of files in the directory, files_skipped being the number of files
\* without a date or not readable to the end.
C22_FileAccounting ==
    /\ [][(pc \in FamilySet /\ pc' = pc /\ fileIdx' # fileIdx)
            => /\ fileIdx' = fileIdx + 1
               /\ \/ stats' = Bump(stats, "files_processed")
                  \/ stats' = Bump(stats, "files_skipped")]_vars
    /\ [](pc \in {"finish", "done"} =>
            /\ stats.files_processed + stats.files_skipped = FilesInDirectory
            /\ stats.files_skipped = UnusableInDirectory)
\* the first of two posts_analysis files could not be read to its end and is
\* counted as skipped, the second one is counted as processed and its row is stored
C22_Witness ==
    /\ pc = "done" /\ run = 1
    /\ Len(dir["posts_analysis"]) = 2
    /\ dir["posts_analysis"][1].read_fails
    /\ Len(dir["posts_analysis"][2].rows) = 1
    /\ dir["posts_analysis"][2].rows[1].post_id = "p1"
    /\ \E i \in 1..Len(posts) : posts[i].post_id = "p1"
    /\ stats.files_skipped = 1 /\ stats.files_processed = 1

\* "YYYY-MM-DD" of the leftmost 8-digit segment of the name of the file at work
DateOfCurrentFile ==
    LET name == CurrentFile.name
        i == Min(DateSegments(name)) IN
      <<name[i], name[i + 1], name[i + 2], name[i + 3], "-", name[i + 4], name[i + 5],
        "-", name[i + 6], name[i + 7]>>

\* C23: a row stored by a posts_analysis row step has source 'public_timeline', a
\* row stored by a local_posts row step has source 'local_timeline', no other
\* source is ever stored; the row any row step stores has the date of the name of
\* the file at work as collection_date, whatever its created_at.
C23_SourceAndDateFromFile ==
    /\ [](\A i \in 1..Len(posts) : posts[i].source \in {"public_timeline", "local_timeline"})
    /\ [][(pc \in FamilySet /\ AtRow(pc) /\ OneRowStored)
            => LET new == TableOf(pc)'[Len(TableOf(pc)')] IN
                 /\ new.collection_date = DateOfCurrentFile
                 /\ pc = "posts_analysis" => new.source = "public_timeline"
                 /\ pc = "local_posts" => new.source = "local_timeline"]_vars
\* a post from a posts_analysis file of one day and a post from a local_posts file
\* of the next day are stored, each with its family's source and its file's date
C23_Witness ==
    /\ pc = "done" /\ run = 1 /\ Len(posts) = 2
    /\ posts[1].source = "public_timeline" /\ posts[1].created_at = "t1"
    /\ posts[1].collection_date = FormatDate(SubSeq(StampDayA1, 1, 8))
    /\ posts[2].source = "local_timeline"
    /\ posts[2].collection_date = FormatDate(SubSeq(StampDayB, 1, 8))

\* C24: a hashtag_posts row stored from a row the collector wrote has the
\* engagement_score the data dictionary describes, 3 * replies + 2 * reblogs +
\* favourites.
C24_ScoreAsDescribed ==
    [][(HashtagRowStored /\ CurrentRow \in CollectorHashtagRows)
         => LET new == hashtag_posts'[Len(hashtag_posts')] IN
              new.engagement_score = DescribedEngagementScore(new)]_vars

\* C25: every row of posts, from either family, has engagement_total = replies +
\* reblogs + favourites, as the data dictionary describes it.
C25_TotalIsSumForEveryPost ==
    \A i \in 1..Len(posts) : posts[i].engagement_total = DescribedEngagementTotal(posts[i])

\* SUM(post_count) over the rows of a view
RECURSIVE SumPostCount(_, _)
SumPostCount(view, keys) ==
    IF keys = {} THEN 0
    ELSE LET k == CHOOSE k \in keys : TRUE IN
           view[k].post_count + SumPostCount(view, keys \ {k})
PostsCountedByHour == SumPostCount(hourly_activity, DOMAIN hourly_activity)

\* the current row of a post family carries no hour: local_posts files have no
\* such column, in a posts_analysis row the cell is absent or empty
RowWithoutHour ==
    \/ pc = "local_posts"
    \/ pc = "posts_analysis" /\ CurrentRow.hour_of_day \in {None, ""}

\* C26: every hour_of_day of hourly_activity is in 0..23, and a post stored from a
\* row that carries no hour is counted in no row of hourly_activity.
C26_HourlyActivity ==
    /\ [](\A h \in DOMAIN hourly_activity : h \in 0..23)
    /\ [][(pc \in {"posts_analysis", "local_posts"} /\ AtRow(pc) /\ RowWithoutHour)
            => PostsCountedByHour' = PostsCountedByHour]_vars

\* C27: every collection_date stored in any of the four tables names a day of the
\* calendar, and the step that meets a file whose name has no 8-digit segment
\* naming such a day skips the file: files_skipped + 1, nothing stored.
C27_OnlyRealDates ==
    /\ [](/\ \A i \in 1..Len(posts) : IsRealDate(posts[i].collection_date)
          /\ \A i \in 1..Len(hashtag_posts) : IsRealDate(hashtag_posts[i].collection_date)
          /\ \A i \in 1..Len(trending_tags) : IsRealDate(trending_tags[i].collection_date)
          /\ \A i \in 1..Len(instance_stats) : IsRealDate(instance_stats[i].collection_date))
    /\ [][(/\ pc \in FamilySet /\ ~inFile /\ fileIdx < Len(dir[pc])
           /\ dir[pc][fileIdx + 1].name = FileName(pc, StampBadDate))
            => /\ stats' = Bump(stats, "files_skipped")
               /\ ~inFile' /\ fileIdx' = fileIdx + 1 /\ Tables' = Tables]_vars

\* the directory without the files whose reading fails
ReadToTheEnd(f) == ~f.read_fails
WithoutUnreadable(d) == [fam \in DOMAIN d |-> SelectSeq(d[fam], ReadToTheEnd)]

\* C28: a file counted in files_skipped leaves no trace: after the first run the
\* tables hold what a run over the directory without the unreadable files stores
\* (undated files store nothing in either), and no row step inside a file whose
\* reading fails later changes a counter.
C28_SkippedFileContributesNothing ==
    /\ [](RunOnceDone => SameContents(Tables, RunOver(EmptyTables, WithoutUnreadable(dir))))
    /\ [][(pc \in FamilySet /\ AtRow(pc) /\ CurrentFile.read_fails) => stats' = stats]_vars

\* C29: when collect_public_timeline(limit) or collect_local_timeline(limit) has
\* written its files, the JSON file and the CSV file each hold at most limit posts.
C29_AtMostLimitPosts ==
    collector.pc = "written" =>
        /\ Len(collector.json_file) <= collector.limit
        /\ Len(collector.csv_file) <= collector.limit

\* the statuses of the responses, one after the other
RECURSIVE Concatenation(_)
Concatenation(resps) ==
    IF resps = << >> THEN << >> ELSE Head(resps).data \o Concatenation(Tail(resps))
IsPrefix(a, b) == Len(a) <= Len(b) /\ SubSeq(b, 1, Len(a)) = a
\* a response after which the loop goes on: a non-empty page with rel="next"
GoesOn(resp) == resp.kind = "ok" /\ resp.data # << >> /\ HasNext(resp.link)

\* C30: _get_paginated_data issues at most max_pages requests; every response
\* before the last one is a non-empty page with a rel="next" link, and once it has
\* returned either the last response is an error, an empty page or a page without
\* rel="next", or max_pages requests were made; all_data is at every moment the
\* pages received so far one after the other, and no step takes anything away
\* from it.
C30_PaginationKeepsPartialData ==
    /\ [](collector.pc \in {"paging", "returned", "written"} =>
            /\ Len(collector.responses) <= collector.max_pages
            /\ \A i \in 1..(Len(collector.responses) - 1) : GoesOn(collector.responses[i])
            /\ collector.all_data = Concatenation(collector.responses)
            /\ collector.pc # "paging" =>
                 \/ Len(collector.responses) = collector.max_pages
                 \/ /\ collector.responses # << >>
                    /\ ~GoesOn(collector.responses[Len(collector.responses)]))
    /\ [][IsPrefix(collector.all_data, collector.all_data')]_vars
\* two pages were received, a full one and one of a single status, then the third
\* request failed: the 41 statuses are returned in their order
C30_Witness ==
    /\ collector.pc = "returned"
    /\ Len(collector.responses) = 3
    /\ collector.responses[3].kind = "error"
    /\ collector.all_data = PageOf(1, PerRequest) \o PageOf(2, 1)

====
